---- MODULE Spec2Model ----
(***************************************************************************)
(* A model of im-scale-convert: the per-file pipeline of processing.py     *)
(* (derive_output_path, resize_image, build_save_params, save_image,      *)
(* process_one), the batch run() over a ThreadPoolExecutor, and the exit  *)
(* code mapping of cli.py.                                                 *)
(*                                                                         *)
(* Paths are records [dir, stem, suffix]: dir is the sequence of directory *)
(* names, stem and suffix the two halves of the final name.  A directory   *)
(* is the sequence of its names.  Metadata payloads (the values of         *)
(* Image.info["exif"] and Image.info["icc_profile"]) are records           *)
(* [kind, id, orient]: kind "absent" is a missing key, "none" the value    *)
(* None, "empty" zero bytes, "bytes" a payload identified by id whose      *)
(* Orientation tag is orient (0: no tag).                                  *)
(***************************************************************************)
EXTENDS Integers, Sequences, FiniteSets, TLC

\* ------------------------------------------------------------------ bounds
\* Largest number of directory entries in the scanned tree.
MaxTree == 3
\* Largest image side, and largest percent, of a direct resize_image call.
MaxDim == 4
MaxPercent == 200
\* Number of files of the large batch, and the number of out-of-order
\* collections its schedules may hold.
ManyFiles == 21
MaxOvertake == 1

\* ------------------------------------------------------- program constants
FAILURE_LINES == 20
DEFAULT_WORKERS == 4
WEBP_METHOD == 6
DEFAULT_QUALITY == 85

SUPPORTED_EXTS == {".jpg", ".jpeg", ".png", ".webp", ".bmp", ".tif", ".tiff"}

\* ------------------------------------------------------------ str methods
\* str.lower() on the suffixes and format names the model uses.
Lower(s) ==
    CASE s = ".JPG" -> ".jpg"
      [] s = ".PNG" -> ".png"
      [] s = ".WEBP" -> ".webp"
      [] s = "JPEG" -> "jpeg"
      [] s = "JPG" -> "jpg"
      [] s = "PNG" -> "png"
      [] s = "WEBP" -> "webp"
      [] s = "BMP" -> "bmp"
      [] s = "TIFF" -> "tiff"
      [] OTHER -> s

\* suffix.lstrip(".").upper()
SuffixUpper(s) ==
    CASE Lower(s) = ".jpg" -> "JPG"
      [] Lower(s) = ".png" -> "PNG"
      [] Lower(s) = ".webp" -> "WEBP"
      [] Lower(s) = ".bmp" -> "BMP"
      [] OTHER -> s

\* ------------------------------------------------------------------ paths
MkPath(d, st, sx) == [dir |-> d, stem |-> st, suffix |-> sx]
NoPath == MkPath(<<>>, "", "")

IsPrefix(p, s) == Len(p) <= Len(s) /\ SubSeq(s, 1, Len(p)) = p

INPUT_DIR == <<"in">>
OUTPUT_DIR == <<"out">>

\* ---------------------------------------------------------------- metadata
Absent == [kind |-> "absent", id |-> 0, orient |-> 0]
NoneValue == [kind |-> "none", id |-> 0, orient |-> 0]
EmptyBytes == [kind |-> "empty", id |-> 0, orient |-> 0]
Payload(i, o) == [kind |-> "bytes", id |-> i, orient |-> o]

\* Python truthiness of a value of Image.info: None and b"" are false.
Truthy(v) == v.kind = "bytes"

MkImage(f, m, w, h, e, i) ==
    [fmt |-> f, mode |-> m, size |-> <<w, h>>, info |-> [exif |-> e, icc_profile |-> i]]
NoImage == MkImage("", "", 0, 0, Absent, Absent)

Max(a, b) == IF a >= b THEN a ELSE b

\* ------------------------------------------------------------ processing.py
\* derive_output_path that replaces the suffix whatever to_webp is.
derive_output_path_mut(src, input_dir, output_dir, to_webp) ==
    IF ~IsPrefix(input_dir, src.dir)
    THEN [exc |-> "ValueError", path |-> NoPath]
    ELSE [exc |-> "",
          path |-> MkPath(output_dir \o SubSeq(src.dir, Len(input_dir) + 1, Len(src.dir)),
                          src.stem, ".webp")]

\* derive_output_path: Path.relative_to raises ValueError when src is not
\* under input_dir.
derive_output_path(src, input_dir, output_dir, to_webp) ==
    IF ~IsPrefix(input_dir, src.dir)
    THEN [exc |-> "ValueError", path |-> NoPath]
    ELSE LET relative == MkPath(SubSeq(src.dir, Len(input_dir) + 1, Len(src.dir)),
                                src.stem, src.suffix)
             joined == MkPath(output_dir \o relative.dir, relative.stem, relative.suffix)
         IN  IF to_webp
             THEN [exc |-> "", path |-> [joined EXCEPT !.suffix = ".webp"]]
             ELSE [exc |-> "", path |-> joined]

\* ImageOps.exif_transpose: a transposed copy; orientations 5..8 swap the
\* sides; the copy's EXIF loses its Orientation tag.  The argument is left
\* as it was.
exif_transpose(image) ==
    LET o == image.info.exif.orient
    IN  IF image.info.exif.kind = "bytes" /\ o \in 2..8
        THEN [image EXCEPT !.size = IF o \in 5..8 THEN <<image.size[2], image.size[1]>>
                                                  ELSE image.size,
                           !.info.exif.orient = 0]
        ELSE image

\* scaled_size without the floor of 1.
scaled_size_mut(size, percent) ==
    <<(size[1] * percent) \div 100, (size[2] * percent) \div 100>>

\* The size resize_image computes from a transposed size.
scaled_size(size, percent) ==
    <<Max(1, (size[1] * percent) \div 100), Max(1, (size[2] * percent) \div 100)>>

\* resize_image: the returned image and whether Image.resize ran.
resize_image(image, percent) ==
    LET transposed == exif_transpose(image)
        new == scaled_size(transposed.size, percent)
    IN  IF new = transposed.size
        THEN [image |-> transposed, resampled |-> FALSE]
        ELSE [image |-> [transposed EXCEPT !.size = new], resampled |-> TRUE]

build_save_params(fmt, quality, optimize, strip_metadata, webp_lossless) ==
    LET fmt_lower == Lower(fmt)
    IN  IF fmt_lower \in {"jpeg", "jpg"}
        THEN [format |-> "JPEG", quality |-> quality, optimize |-> optimize,
              progressive |-> TRUE]
        ELSE IF fmt_lower = "png"
        THEN [format |-> "PNG", optimize |-> optimize]
        ELSE IF fmt_lower = "webp"
        THEN [format |-> "WEBP", lossless |-> webp_lossless, quality |-> quality,
              method |-> WEBP_METHOD]
        ELSE [format |-> fmt]

\* save_kwargs that does not read strip_metadata.
save_kwargs_mut(original, fmt, quality, optimize, strip_metadata, webp_lossless) ==
    LET base == build_save_params(fmt, quality, optimize, strip_metadata, webp_lossless)
        withExif == IF Truthy(original.info.exif)
                    THEN [exif |-> original.info.exif] @@ base ELSE base
    IN  IF Truthy(original.info.icc_profile)
        THEN [icc_profile |-> original.info.icc_profile] @@ withExif ELSE withExif

\* The keyword arguments save_image hands to Image.save.
save_kwargs(original, fmt, quality, optimize, strip_metadata, webp_lossless) ==
    LET base == build_save_params(fmt, quality, optimize, strip_metadata, webp_lossless)
        exif_bytes == IF ~strip_metadata /\ original.info.exif.kind # "absent"
                      THEN original.info.exif ELSE NoneValue
        icc_profile == IF ~strip_metadata /\ original.info.icc_profile.kind # "absent"
                       THEN original.info.icc_profile ELSE NoneValue
        withExif == IF Truthy(exif_bytes) THEN [exif |-> exif_bytes] @@ base ELSE base
    IN  IF Truthy(icc_profile) THEN [icc_profile |-> icc_profile] @@ withExif ELSE withExif

\* The mode of the image handed to Image.save.
save_mode(image, destination, fmt) ==
    LET suffix == Lower(destination.suffix)
        target_fmt == IF suffix = ".webp" THEN "webp" ELSE Lower(fmt)
    IN  IF target_fmt \in {"jpeg", "jpg", "webp"} /\ image.mode \notin {"RGB", "L"}
        THEN "RGB" ELSE image.mode

\* save_image: fault names the step the filesystem or the encoder fails at
\* ("mkdir": ensure_dir raises, "encode": Image.save raises).
save_image(image, destination, original, fmt, quality, optimize, strip_metadata, webp_lossless, fault) ==
    IF fault = "mkdir"
    THEN [exc |-> "OSError", mkdir |-> FALSE, saved |-> FALSE,
          kwargs |-> [format |-> ""], size |-> <<0, 0>>, mode |-> ""]
    ELSE LET kw == save_kwargs(original, fmt, quality, optimize, strip_metadata,
                               webp_lossless)
         IN  IF fault = "encode"
             THEN [exc |-> "OSError", mkdir |-> TRUE, saved |-> FALSE,
                   kwargs |-> kw, size |-> <<0, 0>>, mode |-> ""]
             ELSE [exc |-> "", mkdir |-> TRUE, saved |-> TRUE,
                   kwargs |-> kw, size |-> image.size,
                   mode |-> save_mode(image, destination, fmt)]

\* process_try without its except clause: a failure leaves the block.
process_try_mut(source, destination, exists, content, fault, percent, quality, optimize, strip_metadata, to_webp, webp_lossless) ==
    IF ~exists \/ fault # "none"
    THEN [exc |-> "OSError", status |-> "",
          opened |-> FALSE, mkdir |-> FALSE, saved |-> FALSE,
          kwargs |-> [format |-> ""], size |-> <<0, 0>>, mode |-> ""]
    ELSE [exc |-> "", status |-> "ok",
          opened |-> TRUE, mkdir |-> TRUE, saved |-> TRUE,
          kwargs |-> save_kwargs(content, IF to_webp THEN "WEBP" ELSE content.fmt,
                                 quality, optimize, strip_metadata, webp_lossless),
          size |-> resize_image(content, percent).image.size,
          mode |-> content.mode]

\* process_one's try block for a source whose destination is derived: the
\* with block, and the except clause that turns an exception into a status.
\* exists: the source is a file on disk; fault "decode": Image.open raises.
\* exc is the exception that leaves the block.
process_try(source, destination, exists, content, fault, percent, quality, optimize, strip_metadata, to_webp, webp_lossless) ==
    IF ~exists \/ fault = "decode"
    THEN [exc |-> "",
          status |-> IF ~exists THEN "error: No such file"
                     ELSE "error: cannot identify image file",
          opened |-> FALSE, mkdir |-> FALSE, saved |-> FALSE,
          kwargs |-> [format |-> ""], size |-> <<0, 0>>, mode |-> ""]
    ELSE LET original == content
             resized == resize_image(original, percent).image
             fmt == IF to_webp THEN "WEBP"
                    ELSE IF original.fmt # "" THEN original.fmt
                    ELSE SuffixUpper(source.suffix)
             s == save_image(resized, destination, original, fmt, quality, optimize,
                             strip_metadata, webp_lossless, fault)
         IN  [exc |-> "",
              status |-> IF s.exc = "" THEN "ok" ELSE "error: cannot write",
              opened |-> TRUE, mkdir |-> s.mkdir, saved |-> s.saved,
              kwargs |-> s.kwargs, size |-> s.size, mode |-> s.mode]

\* process_one: the destination is derived before the try block.  exc is the
\* exception that leaves the function ("" when it returns (dest, status)).
process_one(source, exists, content, fault, input_dir, output_dir, percent, quality, optimize, strip_metadata, to_webp, webp_lossless) ==
    LET d == derive_output_path(source, input_dir, output_dir, to_webp)
    IN  IF d.exc # ""
        THEN [exc |-> d.exc, dest |-> NoPath, status |-> "",
              opened |-> FALSE, mkdir |-> FALSE, saved |-> FALSE,
              kwargs |-> [format |-> ""], size |-> <<0, 0>>, mode |-> ""]
        ELSE [dest |-> d.path]
             @@ process_try(source, d.path, exists, content, fault, percent, quality,
                            optimize, strip_metadata, to_webp, webp_lossless)

\* -------------------------------------------------------------- discovery
\* find_images: the files of the listing whose lowercase suffix is supported,
\* in listing order.
RECURSIVE find_images(_)
find_images(listing) ==
    IF listing = <<>> THEN <<>>
    ELSE LET e == Head(listing)
             rest == find_images(Tail(listing))
         IN  IF e.isFile /\ Lower(e.path.suffix) \in SUPPORTED_EXTS
             THEN <<e.path>> \o rest ELSE rest

\* ---------------------------------------------------------- the file tree
Entry(p, f, c, x) == [path |-> p, isFile |-> f, content |-> c, fault |-> x]

\* The step of the pipeline that fails for a file ("none": no step):
\* "decode": Image.open raises; "mkdir": ensure_dir raises; "encode":
\* Image.save raises.
FaultKinds == {"none", "decode", "mkdir", "encode"}

\* The directory entries a scanned tree is drawn from, in the order rglob
\* lists them: three sound images (two of them differ in the suffix alone),
\* an undecodable one, one the encoder rejects, a text file and a directory
\* named like an image.
Universe ==
    << Entry(MkPath(<<"in">>, "a", ".jpg"), TRUE,
             MkImage("JPEG", "RGB", 3, 1, Payload(1, 6), Absent), "none"),
       Entry(MkPath(<<"in", "sub">>, "c", ".webp"), TRUE, NoImage, "decode"),
       Entry(MkPath(<<"in">>, "a", ".png"), TRUE,
             MkImage("PNG", "RGBA", 2, 2, Absent, Payload(2, 0)), "none"),
       Entry(MkPath(<<"in", "sub">>, "b", ".JPG"), TRUE,
             MkImage("JPEG", "L", 4, 4, Payload(3, 1), EmptyBytes), "none"),
       Entry(MkPath(<<"in">>, "e", ".bmp"), TRUE,
             MkImage("BMP", "P", 2, 3, Absent, Absent), "encode"),
       Entry(MkPath(<<"in">>, "notes", ".txt"), TRUE, NoImage, "none"),
       Entry(MkPath(<<"in">>, "d", ".jpg"), FALSE, NoImage, "none") >>

RECURSIVE Pick(_, _)
\* The entries of Universe at the indices S, from index i on.
Pick(S, i) ==
    IF i > Len(Universe) THEN <<>>
    ELSE IF i \in S THEN <<Universe[i]>> \o Pick(S, i + 1)
    ELSE Pick(S, i + 1)

\* The trees main() is run over: at most MaxTree entries.
Trees ==
    { Pick(S, 1) : S \in { T \in SUBSET (1..Len(Universe)) : Cardinality(T) <= MaxTree } }

\* The large batch: ManyFiles files of one directory, the first good of
\* them sound and the others undecodable.
ManyTree(good) ==
    [i \in 1..ManyFiles |->
        [path |-> MkPath(<<"in">>, ToString(i), ".jpg"), isFile |-> TRUE,
         content |-> MkImage("JPEG", "RGB", 2, 2, Absent, Absent),
         fault |-> IF i <= good THEN "none" ELSE "decode"]]

\* ------------------------------------------------------------------ state
VARIABLES
    cfg,          \* the arguments of run() and the state of its directories
    tree,         \* the listing of the input tree
    pc,           \* the main thread's position
    images,       \* run(): images
    worker_count, \* run(): worker_count
    tasks,        \* run(): futures, in submission order
    results,      \* run(): results
    summary,      \* run(): successes, errors and the value returned
    log,          \* the lines handed to log
    exc,          \* the exception leaving run()
    exit_code,    \* what main() returns (-1: it has not returned)
    fs,           \* what the run did to the filesystem
    budget,       \* out-of-order collections the schedule may still make
    direct        \* the last direct call of a function of processing.py

vars == <<cfg, tree, pc, images, worker_count, tasks, results, summary, log, exc,
          exit_code, fs, budget, direct>>

NoCall == [fn |-> "none"]
EmptyFs == [dirs |-> {}, files |-> {}, reads |-> {}]
NoSummary == [successes |-> -1, errors |-> <<>>, code |-> -1]

Line(m, d, s, n) == [msg |-> m, dst |-> d, status |-> s, n |-> n]

Configs ==
    [percent : {0, 50}, input_state : {"dir", "missing", "file"}, output_ok : BOOLEAN,
     to_webp : BOOLEAN, strip_metadata : BOOLEAN, workers : {-1, 0, 1, 2},
     quality : {DEFAULT_QUALITY}, optimize : {FALSE}, webp_lossless : {FALSE}]

InitCommon ==
    /\ images = <<>>
    /\ worker_count = 0
    /\ tasks = <<>>
    /\ results = <<>>
    /\ summary = NoSummary
    /\ log = <<>>
    /\ exc = ""
    /\ exit_code = -1
    /\ fs = EmptyFs
    /\ direct = NoCall

\* main() is entered with any arguments over any tree.
InitRun ==
    /\ cfg \in Configs
    /\ tree \in Trees
    /\ pc = "start"
    /\ budget = Len(tree)
    /\ InitCommon

\* --------------------------------------------------------- run(): preflight
Raise(e) == pc' = "raised" /\ exc' = e

\* run_check_percent with the test percent < 0.
run_check_percent_mut ==
    /\ pc = "start"
    /\ IF cfg.percent < 0 THEN Raise("ValueError")
       ELSE pc' = "check_input" /\ exc' = exc
    /\ UNCHANGED <<cfg, tree, images, worker_count, tasks, results, summary, log,
                   exit_code, fs, budget, direct>>

run_check_percent ==
    /\ pc = "start"
    /\ IF cfg.percent <= 0 THEN Raise("ValueError")
       ELSE pc' = "check_input" /\ exc' = exc
    /\ UNCHANGED <<cfg, tree, images, worker_count, tasks, results, summary, log,
                   exit_code, fs, budget, direct>>

run_check_input ==
    /\ pc = "check_input"
    /\ IF cfg.input_state # "dir" THEN Raise("FileNotFoundError")
       ELSE pc' = "ensure_output" /\ exc' = exc
    /\ UNCHANGED <<cfg, tree, images, worker_count, tasks, results, summary, log,
                   exit_code, fs, budget, direct>>

\* ensure_dir(output_dir): mkdir raises OSError when the directory cannot be
\* created; cli() does not catch it.
run_ensure_output ==
    /\ pc = "ensure_output"
    /\ IF ~cfg.output_ok THEN Raise("OSError") /\ fs' = fs
       ELSE /\ pc' = "scan" /\ exc' = exc
            /\ fs' = [fs EXCEPT !.dirs = @ \cup {OUTPUT_DIR}]
    /\ UNCHANGED <<cfg, tree, images, worker_count, tasks, results, summary, log,
                   exit_code, budget, direct>>

run_scan ==
    /\ pc = "scan"
    /\ images' = find_images(tree)
    /\ IF images' = <<>>
       THEN /\ log' = log \o <<Line("Scanning", NoPath, "", 0),
                               Line("No supported images found.", NoPath, "", 0)>>
            /\ summary' = [summary EXCEPT !.code = 0]
            /\ pc' = "returned"
       ELSE /\ log' = Append(log, Line("Scanning", NoPath, "", 0))
            /\ summary' = summary
            /\ pc' = "pool"
    /\ UNCHANGED <<cfg, tree, worker_count, tasks, results, exc, exit_code, fs,
                   budget, direct>>

\* worker_count = workers or os.cpu_count() or 4; ThreadPoolExecutor raises
\* ValueError for max_workers <= 0.
choose_workers(workers, cpu) ==
    IF workers # 0 THEN workers ELSE IF cpu # 0 THEN cpu ELSE DEFAULT_WORKERS

run_create_pool ==
    /\ pc = "pool"
    /\ \E cpu \in {0, 2} :
         /\ worker_count' = choose_workers(cfg.workers, cpu)
         /\ log' = Append(log, Line("Found", NoPath, "", Len(images)))
         /\ IF worker_count' <= 0 THEN Raise("ValueError")
            ELSE pc' = "submit" /\ exc' = exc
    /\ UNCHANGED <<cfg, tree, images, tasks, results, summary, exit_code, fs,
                   budget, direct>>

\* ---------------------------------------------------- run(): the executor
Task(src) == [src |-> src, state |-> "queued", exc |-> "", dest |-> NoPath, status |-> ""]

\* executor.submit(process_one, src, ...) for the next image.
run_submit ==
    /\ pc = "submit"
    /\ tasks' = Append(tasks, Task(images[Len(tasks) + 1]))
    /\ pc' = IF Len(tasks') = Len(images) THEN "collect" ELSE "submit"
    /\ UNCHANGED <<cfg, tree, images, worker_count, results, summary, log, exc,
                   exit_code, fs, budget, direct>>

Running == {i \in 1..Len(tasks) : tasks[i].state = "running"}
Queued == {i \in 1..Len(tasks) : tasks[i].state = "queued"}
Finished == {i \in 1..Len(tasks) : tasks[i].state = "finished"}
Uncollected == {i \in 1..Len(tasks) : tasks[i].state # "collected"}

\* may_start of a pool without a queue: only the first worker_count items
\* are ever taken.
may_start_mut(i) ==
    /\ i \in Queued
    /\ i <= worker_count

\* Whether the pool lets queued work item i start: the queue is first in,
\* first out, and max_workers threads run.
may_start(i) ==
    /\ i \in Queued
    /\ \A j \in Queued : i <= j
    /\ Cardinality(Running) < worker_count

EntryOf(src) == tree[CHOOSE k \in 1..Len(tree) : tree[k].path = src]

\* A worker thread takes work item i and enters process_one: the destination
\* is derived before the try block; an exception there ends the future.
worker_start(i) ==
    /\ may_start(i)
    /\ LET d == derive_output_path(tasks[i].src, INPUT_DIR, OUTPUT_DIR, cfg.to_webp)
       IN  tasks' = [tasks EXCEPT ![i] =
                IF d.exc # "" THEN [@ EXCEPT !.state = "finished", !.exc = d.exc]
                ELSE [@ EXCEPT !.state = "running", !.dest = d.path]]
    /\ UNCHANGED <<cfg, tree, pc, images, worker_count, results, summary, log, exc,
                   exit_code, fs, budget, direct>>

\* What a Image.save to dest leaves on disk: the file is overwritten.
write_file(files, rec) == {f \in files : f.dest # rec.dest} \cup {rec}

\* The worker runs process_one's try block and leaves it: the future holds
\* the tuple (or the exception that left the block).
worker_finish(i) ==
    /\ i \in Running
    /\ \E r \in {process_try(tasks[i].src, tasks[i].dest, TRUE,
                             EntryOf(tasks[i].src).content, EntryOf(tasks[i].src).fault,
                             cfg.percent, cfg.quality, cfg.optimize, cfg.strip_metadata,
                             cfg.to_webp, cfg.webp_lossless)} :
           /\ tasks' = [tasks EXCEPT ![i] = [@ EXCEPT !.state = "finished",
                                                       !.exc = r.exc,
                                                       !.status = r.status]]
           /\ fs' = [dirs |-> IF r.mkdir THEN fs.dirs \cup {tasks[i].dest.dir}
                              ELSE fs.dirs,
                     files |-> IF r.saved
                               THEN write_file(fs.files,
                                        [dest |-> tasks[i].dest, src |-> tasks[i].src,
                                         size |-> r.size, mode |-> r.mode,
                                         kwargs |-> r.kwargs])
                               ELSE fs.files,
                     reads |-> IF r.opened THEN fs.reads \cup {tasks[i].src}
                               ELSE fs.reads]
    /\ UNCHANGED <<cfg, tree, pc, images, worker_count, results, summary, log, exc,
                   exit_code, budget, direct>>

\* Whether collecting i passes over an earlier future not yet collected.
overtakes(i) == \E j \in Uncollected : j < i

\* for fut in as_completed(futures): results.append(fut.result()).  Finished
\* futures are yielded in no fixed order; result() re-raises the future's
\* exception, which leaves the loop.
run_collect(i) ==
    /\ pc = "collect"
    /\ i \in Finished
    /\ overtakes(i) => budget > 0
    /\ budget' = IF overtakes(i) THEN budget - 1 ELSE budget
    /\ tasks' = [tasks EXCEPT ![i].state = "collected"]
    /\ IF tasks[i].exc # ""
       THEN /\ exc' = tasks[i].exc
            /\ pc' = "unwind"
            /\ results' = results
       ELSE /\ exc' = exc
            /\ pc' = pc
            /\ results' = Append(results, [task |-> i, dst |-> tasks[i].dest,
                                           status |-> tasks[i].status])
    /\ UNCHANGED <<cfg, tree, images, worker_count, summary, log, exit_code, fs, direct>>

\* The with block ends: shutdown(wait=True) returns when every work item has
\* run; an exception from the loop then leaves run().
run_exit_pool ==
    /\ pc \in {"collect", "unwind"}
    /\ IF pc = "collect" THEN Uncollected = {}
       ELSE \A i \in 1..Len(tasks) : tasks[i].state \in {"finished", "collected"}
    /\ pc' = IF pc = "collect" THEN "aggregate" ELSE "raised"
    /\ UNCHANGED <<cfg, tree, images, worker_count, tasks, results, summary, log, exc,
                   exit_code, fs, budget, direct>>

\* ------------------------------------------------------ run(): the summary
successes_of(rs) == Cardinality({k \in 1..Len(rs) : rs[k].status = "ok"})

\* errors_of with the status compared to the bare word.
RECURSIVE errors_of_mut(_)
errors_of_mut(rs) ==
    IF rs = <<>> THEN <<>>
    ELSE IF Head(rs).status = "error" THEN <<Head(rs)>> \o errors_of_mut(Tail(rs))
    ELSE errors_of_mut(Tail(rs))

RECURSIVE errors_of(_)
errors_of(rs) ==
    IF rs = <<>> THEN <<>>
    ELSE IF Head(rs).status # "ok" THEN <<Head(rs)>> \o errors_of(Tail(rs))
    ELSE errors_of(Tail(rs))

Min(a, b) == IF a <= b THEN a ELSE b

\* The failure lines of the log: errors[:20], one line each.
failure_lines(errors) ==
    [k \in 1..Min(Len(errors), FAILURE_LINES) |->
        Line("failure", errors[k].dst, errors[k].status, errors[k].task)]

report_lines(successes, errors) ==
    <<Line("Done", NoPath, "", successes)>>
    \o (IF errors # <<>>
        THEN <<Line("Failures:", NoPath, "", Len(errors))>> \o failure_lines(errors)
             \o (IF Len(errors) > FAILURE_LINES
                 THEN <<Line("more", NoPath, "", Len(errors) - FAILURE_LINES)>>
                 ELSE <<>>)
        ELSE <<>>)

\* return 0 if not errors else 1
run_code(errors) == IF errors = <<>> THEN 0 ELSE 1

run_report ==
    /\ pc = "aggregate"
    /\ summary' = [successes |-> successes_of(results), errors |-> errors_of(results),
                    code |-> run_code(errors_of(results))]
    /\ log' = log \o report_lines(summary'.successes, summary'.errors)
    /\ pc' = "returned"
    /\ UNCHANGED <<cfg, tree, images, worker_count, tasks, results, exc, exit_code,
                   fs, budget, direct>>

\* ------------------------------------------------------------------ cli.py
\* main_code with cli() catching ValueError alone.
main_code_mut(e, code) ==
    IF e = "" THEN code
    ELSE IF e = "ValueError" THEN 2
    ELSE -1

\* cli() turns FileNotFoundError and ValueError into CLIError, for which
\* main() returns 2; any other exception leaves main().
main_code(e, code) ==
    IF e = "" THEN code
    ELSE IF e \in {"FileNotFoundError", "ValueError"} THEN 2
    ELSE -1

cli_main ==
    /\ pc \in {"returned", "raised"}
    /\ exit_code' = main_code(exc, summary.code)
    /\ pc' = IF exit_code' = -1 THEN "crashed" ELSE "exited"
    /\ UNCHANGED <<cfg, tree, images, worker_count, tasks, results, summary, log, exc,
                   fs, budget, direct>>

MainThread ==
    \/ run_check_percent
    \/ run_check_input
    \/ run_ensure_output
    \/ run_scan
    \/ run_create_pool
    \/ run_submit
    \/ \E i \in 1..Len(tasks) : run_collect(i)
    \/ run_exit_pool
    \/ run_report
    \/ cli_main

Workers ==
    \/ \E i \in 1..Len(tasks) : worker_start(i)
    \/ \E i \in 1..Len(tasks) : worker_finish(i)

NextRun == MainThread \/ Workers

\* ----------------------------------------------- the functions called directly
\* processing.py's functions are importable: each is also called on its own,
\* once, with arguments drawn from the sets below.
DirectConfig ==
    [percent |-> 50, input_state |-> "dir", output_ok |-> TRUE, to_webp |-> FALSE,
     strip_metadata |-> FALSE, workers |-> 1, quality |-> DEFAULT_QUALITY,
     optimize |-> FALSE, webp_lossless |-> FALSE]

InitDirect ==
    /\ cfg = DirectConfig
    /\ tree = <<>>
    /\ pc = "direct"
    /\ budget = 0
    /\ InitCommon

Orientations == 0..8
ExifValues == {Absent, EmptyBytes, Payload(1, 0), Payload(1, 6)}
IccValues == {Absent, NoneValue, EmptyBytes, Payload(2, 0)}
Formats == {"JPEG", "JPG", "PNG", "WEBP", "BMP", "TIFF"}

call_resize_image ==
    /\ pc = "direct"
    /\ \E w \in 1..MaxDim, h \in 1..MaxDim, o \in Orientations, p \in 0..MaxPercent :
         LET image == MkImage("JPEG", "RGB", w, h,
                              IF o = 0 THEN Absent ELSE Payload(1, o), Absent)
         IN  direct' = [fn |-> "resize_image", image |-> image, percent |-> p,
                        result |-> resize_image(image, p)]
    /\ pc' = "called"
    /\ UNCHANGED <<cfg, tree, images, worker_count, tasks, results, summary, log,
                   exc, exit_code, fs, budget>>

call_save_image ==
    /\ pc = "direct"
    /\ \E fmt \in Formats, mode \in {"RGB", "RGBA"}, e \in ExifValues, i \in IccValues,
          strip \in BOOLEAN, lossless \in BOOLEAN, optimize \in BOOLEAN,
          sx \in {".jpg", ".WEBP"}, fault \in {"none", "mkdir", "encode"} :
         LET original == MkImage(fmt, mode, 4, 2, e, i)
             image == resize_image(original, 50).image
             destination == MkPath(OUTPUT_DIR, "x", sx)
         IN  direct' = [fn |-> "save_image", original |-> original,
                        strip_metadata |-> strip,
                        result |-> save_image(image, destination, original, fmt,
                                              DEFAULT_QUALITY, optimize, strip, lossless,
                                              fault)]
    /\ pc' = "called"
    /\ UNCHANGED <<cfg, tree, images, worker_count, tasks, results, summary, log,
                   exc, exit_code, fs, budget>>

\* The sources process_one is called on: the files of Universe, a file that
\* is not under input_dir, and a path that names no file.
DirectSources ==
    {[path |-> Universe[k].path, exists |-> TRUE, content |-> Universe[k].content] :
        k \in {j \in 1..Len(Universe) : Universe[j].isFile}}
    \cup {[path |-> MkPath(<<"elsewhere">>, "x", ".jpg"), exists |-> TRUE,
           content |-> MkImage("JPEG", "RGB", 2, 2, Payload(4, 3), Absent)],
          [path |-> MkPath(<<"in">>, "ghost", ".jpg"), exists |-> FALSE,
           content |-> NoImage]}

call_process_one ==
    /\ pc = "direct"
    /\ \E s \in DirectSources, fault \in FaultKinds, p \in {50, 100},
          strip \in BOOLEAN, webp \in BOOLEAN :
         direct' = [fn |-> "process_one", source |-> s, fault |-> fault,
                    strip_metadata |-> strip, to_webp |-> webp,
                    result |-> process_one(s.path, s.exists, s.content, fault, INPUT_DIR,
                                           OUTPUT_DIR, p, DEFAULT_QUALITY, FALSE, strip,
                                           webp, FALSE)]
    /\ pc' = "called"
    /\ UNCHANGED <<cfg, tree, images, worker_count, tasks, results, summary, log,
                   exc, exit_code, fs, budget>>

NextDirect == call_resize_image \/ call_save_image \/ call_process_one

\* --------------------------------------------------------- specifications
Init == InitRun \/ InitDirect
Next == NextRun \/ NextDirect
Spec == Init /\ [][Next]_vars

\* main() on arguments that pass the preflight checks, under the scheduling
\* the interpreter gives: the main thread keeps running, and while a worker
\* can take or finish a work item some worker does (every transform returns).
InitFair ==
    /\ InitRun
    /\ cfg.percent > 0 /\ cfg.input_state = "dir" /\ cfg.output_ok
    /\ ~cfg.strip_metadata

FairSpec ==
    /\ InitFair
    /\ [][NextRun]_vars
    /\ WF_vars(MainThread)
    /\ WF_vars(Workers)

\* main() over the large batch with one worker thread: the futures finish in
\* submission order and as_completed yields the finished ones in any order,
\* of which the schedules hold MaxOvertake collections ahead of an earlier
\* future.
InitMany ==
    /\ cfg = DirectConfig
    /\ \E good \in 0..1 : tree = ManyTree(good)
    /\ pc = "start"
    /\ budget = MaxOvertake
    /\ InitCommon

SpecMany == InitMany /\ [][NextRun]_vars

\* ------------------------------------------------------------------ claims
\* run() has computed its summary over a batch.
Aggregated == pc \in {"returned", "exited"} /\ exc = "" /\ images # <<>>

Started == {i \in 1..Len(tasks) : tasks[i].dest # NoPath}

\* C1: once the batch is drained, results holds exactly one outcome for each
\* discovered file, and successes + len(errors) is the number of files.
C1_OneOutcomePerFile ==
    /\ (pc = "aggregate" \/ Aggregated) =>
          /\ Len(results) = Len(images)
          /\ Len(tasks) = Len(images)
          /\ \A i \in 1..Len(images) :
                /\ tasks[i].src = images[i]
                /\ Cardinality({k \in 1..Len(results) : results[k].task = i}) = 1
    /\ Aggregated => summary.successes + Len(summary.errors) = Len(images)

\* Three files over two workers, collected out of submission order, with a
\* failure and a success among them.
C1_Witness ==
    /\ Aggregated /\ Len(images) = 3 /\ worker_count = 2
    /\ results[1].task = 3
    /\ summary.successes > 0 /\ Len(summary.errors) > 0

ErrorStatuses == {"error: No such file", "error: cannot identify image file",
                  "error: cannot write"}

\* C2 as stated: process_one never lets an exception out, whichever step
\* fails, so no future of run() holds an exception.
C2_NeverPropagates ==
    /\ direct.fn = "process_one" => direct.result.exc = ""
    /\ \A i \in 1..Len(tasks) : tasks[i].exc = ""
    /\ pc # "unwind"

\* C2 amended: a failure of decode, resize, directory creation, encode or
\* write is returned as (destination, "error: ..."); a source that is not
\* under input_dir makes the path mapping raise out of process_one.  In
\* run() every source is under input_dir, so no future holds an exception,
\* fut.result() never raises, and every task is run and collected with its
\* own outcome whatever the other tasks did.
C2_FailuresAreOutcomes ==
    /\ direct.fn = "process_one" =>
          LET r == direct.result
              s == direct.source
          IN  /\ r.exc # "" <=> ~IsPrefix(INPUT_DIR, s.path.dir)
              /\ r.exc = "" =>
                    /\ r.status = "ok" <=> (s.exists /\ direct.fault = "none")
                    /\ r.status # "ok" => r.status \in ErrorStatuses
                    /\ r.dest.dir = OUTPUT_DIR \o SubSeq(s.path.dir, 2, Len(s.path.dir))
    /\ \A i \in 1..Len(tasks) : tasks[i].exc = ""
    /\ pc \notin {"unwind", "direct", "called"} =>
          /\ exc \in {"", "ValueError", "FileNotFoundError", "OSError"}
          /\ exc # "" => results = <<>>
    /\ pc = "aggregate" =>
          \A i \in 1..Len(images) :
             \E k \in 1..Len(results) :
                /\ results[k].task = i
                /\ results[k].dst = tasks[i].dest
                /\ results[k].status = "ok" <=> EntryOf(images[i]).fault = "none"
                /\ results[k].status # "ok" => results[k].status \in ErrorStatuses

\* A failed file is collected first and a sound one after it.
C2_Witness ==
    /\ pc = "exited" /\ Len(results) >= 2
    /\ results[1].status \in ErrorStatuses
    /\ results[2].status = "ok"
    /\ results[2].task > results[1].task

\* C3: main() returns 0 exactly when no outcome is an error (also when no
\* image was found), 1 when some outcome is an error, and 2 when percent <= 0
\* or the input directory is missing or no directory.
C3_ExitCode ==
    /\ (pc = "exited" /\ exc = "") =>
          /\ exit_code = 0 <=> \A k \in 1..Len(results) : results[k].status = "ok"
          /\ exit_code = 1 <=> \E k \in 1..Len(results) : results[k].status # "ok"
          /\ find_images(tree) = <<>> => exit_code = 0
    /\ (pc \in {"exited", "crashed"} /\ (cfg.percent <= 0 \/ cfg.input_state # "dir")) =>
          /\ pc = "exited"
          /\ exit_code = 2
          /\ tasks = <<>>

\* A run with a failed file and a sound one has returned 1.
C3_Witness ==
    /\ pc = "exited" /\ exit_code = 1
    /\ \E k \in 1..Len(results) : results[k].status = "ok"
    /\ \E k \in 1..Len(results) : results[k].status # "ok"

\* C4: with percent <= 0 run() raises the configuration error and nothing
\* else ever happens: no directory is created, nothing is scanned, submitted,
\* read, written or logged.
C4_NoSideEffects ==
    (pc \notin {"direct", "called"} /\ cfg.percent <= 0) =>
        /\ fs = EmptyFs
        /\ images = <<>>
        /\ tasks = <<>>
        /\ results = <<>>
        /\ log = <<>>
        /\ pc \in {"start", "raised", "exited"}
        /\ pc # "start" => exc = "ValueError"

\* The error has been raised over a tree with images, an input directory
\* and a creatable output directory.
C4_Witness ==
    /\ pc = "raised" /\ cfg.percent <= 0 /\ exc = "ValueError"
    /\ cfg.input_state = "dir" /\ cfg.output_ok
    /\ find_images(tree) # <<>>

\* The size of an image once its orientation is normalised.
Oriented(image) ==
    IF image.info.exif.kind = "bytes" /\ image.info.exif.orient \in 5..8
    THEN <<image.size[2], image.size[1]>> ELSE image.size

\* C5: for percent > 0 resize_image returns the size
\* (max(1, w*p div 100), max(1, h*p div 100)) of the oriented size (w, h),
\* no side of it 0, and resamples exactly when that size differs from (w, h).
C5_ResizeDimensions ==
    (direct.fn = "resize_image" /\ direct.percent > 0) =>
        LET wh == Oriented(direct.image)
            p == direct.percent
            nw == IF (wh[1] * p) \div 100 < 1 THEN 1 ELSE (wh[1] * p) \div 100
            nh == IF (wh[2] * p) \div 100 < 1 THEN 1 ELSE (wh[2] * p) \div 100
        IN  /\ direct.result.image.size = <<nw, nh>>
            /\ direct.result.image.size[1] >= 1
            /\ direct.result.image.size[2] >= 1
            /\ direct.result.resampled <=> <<nw, nh>> # wh

\* A rotated 1 x 3 image at 50 percent: a side would round to 0.
C5_Witness ==
    /\ direct.fn = "resize_image" /\ direct.percent = 50
    /\ direct.image.size = <<1, 3>> /\ direct.image.info.exif.orient = 6
    /\ direct.result.image.size = <<1, 1>>
    /\ direct.result.resampled

\* What C6 asks of the keyword arguments of one Image.save.
MetadataKept(original, strip, kw) ==
    /\ strip => "exif" \notin DOMAIN kw /\ "icc_profile" \notin DOMAIN kw
    /\ (~strip /\ original.info.exif.kind = "bytes") =>
          "exif" \in DOMAIN kw /\ kw.exif = original.info.exif
    /\ (~strip /\ original.info.icc_profile.kind = "bytes") =>
          "icc_profile" \in DOMAIN kw /\ kw.icc_profile = original.info.icc_profile

\* C6: every Image.save is given the source's EXIF payload and ICC profile,
\* each as it is, when strip_metadata is false, and neither when it is true,
\* whatever the format.
C6_MetadataPassThrough ==
    /\ (direct.fn = "save_image" /\ direct.result.saved) =>
          MetadataKept(direct.original, direct.strip_metadata, direct.result.kwargs)
    /\ \A f \in fs.files :
          MetadataKept(EntryOf(f.src).content, cfg.strip_metadata, f.kwargs)

\* A save that was handed both payloads.
C6_Witness ==
    /\ direct.fn = "save_image" /\ direct.result.saved /\ ~direct.strip_metadata
    /\ direct.original.info.exif = Payload(1, 6)
    /\ direct.original.info.icc_profile = Payload(2, 0)
    /\ direct.result.kwargs.exif = Payload(1, 6)
    /\ direct.result.kwargs.icc_profile = Payload(2, 0)

\* C7 as stated: two distinct discovered files never have the same
\* destination, so no two workers write the same file.
C7_DistinctDestinations ==
    \A i \in Started, j \in Started : i # j => tasks[i].dest # tasks[j].dest

\* C7 amended: two distinct discovered files have the same destination only
\* with to_webp, and then exactly when they lie in the same directory with
\* the same stem and differ in the suffix alone.
C7_DistinctUnlessSameStem ==
    \A i \in Started, j \in Started :
        i # j =>
            (tasks[i].dest = tasks[j].dest
                <=> /\ cfg.to_webp
                    /\ tasks[i].src.dir = tasks[j].src.dir
                    /\ tasks[i].src.stem = tasks[j].src.stem)

\* Two workers are inside process_one at once, with to_webp, on two
\* destinations.
C7_Witness ==
    /\ cfg.to_webp
    /\ \E i \in Running, j \in Running : i # j /\ tasks[i].dest # tasks[j].dest

\* The results of the same outcomes collected in submission order.
InOrder == [k \in 1..Len(tasks) |-> [task |-> k, dst |-> tasks[k].dest,
                                     status |-> tasks[k].status]]

Failures(lines) ==
    {<<lines[k].dst, lines[k].status>> : k \in {n \in 1..Len(lines) : lines[n].msg = "failure"}}

\* C8: the counts, the exit code and the set of failure lines logged are
\* those of any other completion order of the same outcomes, also with more
\* than 20 failures.
C8_ScheduleIndependent ==
    Aggregated =>
        /\ summary.successes = successes_of(InOrder)
        /\ Len(summary.errors) = Len(errors_of(InOrder))
        /\ summary.code = run_code(errors_of(InOrder))
        /\ pc = "exited" => exit_code = run_code(errors_of(InOrder))
        /\ Failures(log) = Failures(report_lines(successes_of(InOrder), errors_of(InOrder)))

AllCollected ==
    /\ Len(tasks) = Len(images)
    /\ \A i \in 1..Len(tasks) : tasks[i].state = "collected"

\* C9: run() computes its summary only once every submitted task is done and
\* collected, and a run that has begun to submit ends with main() returned
\* and every outcome collected.
C9_DrainsAndReturns ==
    /\ []((pc \in {"aggregate", "returned", "exited"} /\ images # <<>> /\ exc = "")
            => AllCollected)
    /\ (pc = "submit") ~> (pc = "exited" /\ AllCollected /\ Len(results) = Len(images))

\* Three files over one worker have all been collected.
C9_Witness ==
    /\ pc = "exited" /\ worker_count = 1 /\ Len(images) = 3 /\ AllCollected

\* C10: no saved output of a source whose EXIF orientation is not the
\* default carries that orientation tag, with strip_metadata or without.
C10_OrientationDiscarded ==
    /\ \A f \in fs.files :
          EntryOf(f.src).content.info.exif.orient \in 2..8 =>
              ("exif" \in DOMAIN f.kwargs => f.kwargs.exif.orient = 0)
    /\ (direct.fn = "process_one" /\ direct.result.saved
            /\ direct.source.content.info.exif.orient \in 2..8) =>
          ("exif" \in DOMAIN direct.result.kwargs => direct.result.kwargs.exif.orient = 0)

====
